---- MODULE Spec2Model ----
(***************************************************************************)
(* Model of the marketing-site backend: the ContactFormSettings singleton  *)
(* (main/models.py), the contact-form pipeline and visit tracking          *)
(* (main/views.py), the staff settings page (dashboard/views.py) and the   *)
(* daily statistics rollup (main/models.py).                               *)
(*                                                                         *)
(* Character strings are sequences of one-character strings, so that       *)
(* trimming, the regular expressions and the splits are computed.          *)
(***************************************************************************)
EXTENDS Integers, Sequences, FiniteSets, TLC

(***************************************************************************)
(* Bounds of the model.                                                    *)
(***************************************************************************)
NumCallers == 3
MaxPk == 3
MaxRequests == 1
MaxSettingsPosts == 1
MaxViews == 2
MaxDay == 1
MaxUpdates == 2
NumStaff == 2
MaxReportViews == 5

VARIABLES
    settingsRows,   \* the ContactFormSettings table: a set of rows
    cpc,            \* per caller: position in get_settings / save
    cop,            \* per caller: the operation it runs
    cinst,          \* per caller: pk carried by the instance being saved
    cres,           \* per caller: the row returned, or the exception raised
    contacts,       \* the Contact table, in order of creation
    pageViews,      \* the PageView table, in order of creation
    outbox,         \* the mails the mail backend accepted
    today,          \* timezone.now().date(), as a day number
    req,            \* the landing-page request in flight and its locals
    log,            \* what the request in flight has done so far, in order
    nreq,           \* requests started so far
    nposts,         \* settings updates made so far
    lastTrack,      \* the last call of track_page_view
    statsRows,      \* the SiteStatistics table: a set of rows
    upd,            \* update_daily_stats in progress: position and locals
    calls,          \* the calls of update_daily_stats that have returned
    tieOrder,       \* the order the database gives to equal counts
    staff,          \* per staff member: the contact_detail request in flight
    report,         \* what the last analytics request computed
    lastPost,       \* the last notes update contact_detail has saved
    page,           \* what the last landing page rendered showed
    home,           \* what the last dashboard home rendered showed
    api             \* what the last answer of api_stats held

settingsVars == <<settingsRows, cpc, cop, cinst, cres>>
storeVars == <<contacts, pageViews, outbox, today>>
requestVars == <<req, log, nreq, nposts, lastTrack>>
statsVars == <<statsRows, upd, calls, tieOrder>>
dashVars == <<staff, report, lastPost, page, home, api>>
vars == <<settingsVars, storeVars, requestVars, statsVars, dashVars>>

(***************************************************************************)
(* Strings.                                                                *)
(***************************************************************************)
\* the characters of \s and of str.strip()
Whitespace == {" ", "\t", "\n", "\r", "\f"}

RECURSIVE LStrip(_)
LStrip(s) ==
    IF s # <<>> /\ Head(s) \in Whitespace THEN LStrip(Tail(s)) ELSE s

RECURSIVE RStrip(_)
RStrip(s) ==
    IF s # <<>> /\ s[Len(s)] \in Whitespace
    THEN RStrip(SubSeq(s, 1, Len(s) - 1))
    ELSE s

\* str.strip()
Strip(s) == RStrip(LStrip(s))

UpperLetters ==
    <<"A", "B", "C", "D", "E", "F", "G", "H", "I", "J", "K", "L", "M",
      "N", "O", "P", "Q", "R", "S", "T", "U", "V", "W", "X", "Y", "Z">>

LowerLetters ==
    <<"a", "b", "c", "d", "e", "f", "g", "h", "i", "j", "k", "l", "m",
      "n", "o", "p", "q", "r", "s", "t", "u", "v", "w", "x", "y", "z">>

LowerChar(c) ==
    IF \E i \in DOMAIN UpperLetters : UpperLetters[i] = c
    THEN LowerLetters[CHOOSE i \in DOMAIN UpperLetters : UpperLetters[i] = c]
    ELSE c

\* str.lower()
Lower(s) == [i \in DOMAIN s |-> LowerChar(s[i])]

\* str.split(sep) for a one-character separator
RECURSIVE Split(_, _)
Split(s, sep) ==
    IF \E i \in DOMAIN s : s[i] = sep
    THEN LET i == CHOOSE k \in DOMAIN s :
                    s[k] = sep /\ \A j \in 1..(k - 1) : s[j] # sep
         IN <<SubSeq(s, 1, i - 1)>> \o Split(SubSeq(s, i + 1, Len(s)), sep)
    ELSE <<s>>

\* sep.join(parts)
RECURSIVE Join(_, _)
Join(parts, sep) ==
    IF parts = <<>> THEN <<>>
    ELSE IF Len(parts) = 1 THEN parts[1]
    ELSE parts[1] \o sep \o Join(Tail(parts), sep)

Digits == {"0", "1", "2", "3", "4", "5", "6", "7", "8", "9"}

IsDigit(c) == c \in Digits

\* re.sub(r'\D', '', s)
RemoveNonDigits(s) == SelectSeq(s, IsDigit)

\* one character of the class [^\s@]
EmailChar(c) == c \notin Whitespace /\ c # "@"

AllEmailChars(s, from, to) == \A k \in from..to : EmailChar(s[k])

\* [^\s@]+@[^\s@]+\.[^\s@]+ matching the whole of s
EmailShape(s) ==
    \E a \in DOMAIN s, d \in DOMAIN s :
        /\ s[a] = "@"
        /\ s[d] = "."
        /\ 2 <= a
        /\ a + 2 <= d
        /\ d + 1 <= Len(s)
        /\ AllEmailChars(s, 1, a - 1)
        /\ AllEmailChars(s, a + 1, d - 1)
        /\ AllEmailChars(s, d + 1, Len(s))

\* re.match(r'^[^\s@]+@[^\s@]+\.[^\s@]+$', s): $ also matches just before
\* a newline that ends the string
EmailRegexMatch(s) ==
    \/ EmailShape(s)
    \/ /\ s # <<>>
       /\ s[Len(s)] = "\n"
       /\ EmailShape(SubSeq(s, 1, Len(s) - 1))

\* attachment.name.split('.')[-1].lower()
FileExtension(name) ==
    LET parts == Split(name, ".") IN Lower(parts[Len(parts)])

\* [ext.strip().lower() for ext in allowed_file_types.split(',')]
AllowedTypes(allowed_file_types) ==
    LET parts == Split(allowed_file_types, ",")
    IN [i \in DOMAIN parts |-> Lower(Strip(parts[i]))]

InList(x, list) == \E i \in DOMAIN list : list[i] = x

(***************************************************************************)
(* ContactFormSettings                                                     *)
(***************************************************************************)
NoPk == 0
PKs == 1..MaxPk
Callers == 1..NumCallers

\* the auto-reply template as str.format sees it: literal text, {field}
\* replacement fields, and a brace that opens no field
Lit(text) == [kind |-> "lit", text |-> text]
Field(name) == [kind |-> "field", text |-> name]
StrayBrace == [kind |-> "brace", text |-> "{"]

DefaultAutoReplyMessage ==
    << Lit("Ola "), Field("name"), Lit(" - Nome: "), Field("name"),
       Lit(" - Email: "), Field("email"), Lit(" - WhatsApp: "),
       Field("whatsapp"), Lit(" - Data: "), Field("date") >>

DefaultNotificationEmail ==
    <<"a", "d", "m", "i", "n", "@", "e", "x", "a", "m", "p", "l", "e", ".", "c", "o", "m">>

DefaultAllowedFileTypes ==
    <<"p", "d", "f", ",", "d", "o", "c", ",", "d", "o", "c", "x", ",", "t", "x", "t">>

DefaultMaxFileSizeMb == 10

\* the field defaults of the model class
DefaultFields ==
    [ email_notifications |-> TRUE,
      notification_email  |-> DefaultNotificationEmail,
      auto_reply_enabled  |-> TRUE,
      auto_reply_message  |-> DefaultAutoReplyMessage,
      max_file_size_mb    |-> DefaultMaxFileSizeMb,
      allowed_file_types  |-> DefaultAllowedFileTypes ]

SettingsRowOf(pk, fields) == [pk |-> pk, fields |-> fields]

HasPk(rows, pk) == \E r \in rows : r.pk = pk

RowWithPk(rows, pk) == CHOOSE r \in rows : r.pk = pk

\* AutoField: the key the database gives a row inserted without one
AutoPk(rows) ==
    IF rows = {} THEN 1
    ELSE (CHOOSE m \in {r.pk : r \in rows} : \A r \in rows : r.pk <= m) + 1

\* what a caller ends with: the row it obtained and the branch that
\* returned it, or the exception raised
NoResult == [kind |-> "none", row |-> SettingsRowOf(NoPk, DefaultFields), via |-> "none"]

Returned(row, via) == [kind |-> "row", row |-> row, via |-> via]

Raised(exc) == [kind |-> exc, row |-> SettingsRowOf(NoPk, DefaultFields), via |-> "raise"]

\* ContactFormSettings.save: the guard that raises ValueError
SaveGuardRaises(pk, rows) == pk = NoPk /\ rows # {}

\* get_or_create(pk=1) run without interleaving: the table afterwards
GetOrCreateRows(rows) ==
    IF HasPk(rows, 1) THEN rows ELSE rows \cup {SettingsRowOf(1, DefaultFields)}

\* get_or_create(pk=1): the first get
GetSettingsGet(p) ==
    /\ cpc[p] = "idle"
    /\ cop' = [cop EXCEPT ![p] = "get_settings"]
    /\ IF HasPk(settingsRows, 1)
       THEN /\ cpc' = [cpc EXCEPT ![p] = "done"]
            /\ cres' = [cres EXCEPT ![p] =
                          Returned(RowWithPk(settingsRows, 1), "get")]
       ELSE /\ cpc' = [cpc EXCEPT ![p] = "gs_create"]
            /\ cres' = cres
    /\ UNCHANGED <<settingsRows, cinst, storeVars, requestVars, statsVars, dashVars>>

\* GetSettingsCreate with a plain create(pk=1) in place of get_or_create:
\* the duplicate key is not followed by a second get
GetSettingsCreate_NoRetry(p) ==
    /\ cpc[p] = "gs_create"
    /\ IF SaveGuardRaises(1, settingsRows)
       THEN /\ cpc' = [cpc EXCEPT ![p] = "done"]
            /\ cres' = [cres EXCEPT ![p] = Raised("ValueError")]
            /\ UNCHANGED settingsRows
       ELSE IF HasPk(settingsRows, 1)
       THEN /\ cpc' = [cpc EXCEPT ![p] = "done"]
            /\ cres' = [cres EXCEPT ![p] = Raised("IntegrityError")]
            /\ UNCHANGED settingsRows
       ELSE /\ settingsRows' = settingsRows \cup {SettingsRowOf(1, DefaultFields)}
            /\ cpc' = [cpc EXCEPT ![p] = "done"]
            /\ cres' = [cres EXCEPT ![p] =
                          Returned(SettingsRowOf(1, DefaultFields), "create")]
    /\ UNCHANGED <<cop, cinst, storeVars, requestVars, statsVars, dashVars>>

\* get_or_create(pk=1): create(pk=1), whose save() skips the guard because
\* the instance carries pk 1; the INSERT fails on a duplicate key
GetSettingsCreate(p) ==
    /\ cpc[p] = "gs_create"
    /\ IF SaveGuardRaises(1, settingsRows)
       THEN /\ cpc' = [cpc EXCEPT ![p] = "done"]
            /\ cres' = [cres EXCEPT ![p] = Raised("ValueError")]
            /\ UNCHANGED settingsRows
       ELSE IF HasPk(settingsRows, 1)
       THEN /\ cpc' = [cpc EXCEPT ![p] = "gs_reget"]
            /\ UNCHANGED <<settingsRows, cres>>
       ELSE /\ settingsRows' = settingsRows \cup {SettingsRowOf(1, DefaultFields)}
            /\ cpc' = [cpc EXCEPT ![p] = "done"]
            /\ cres' = [cres EXCEPT ![p] =
                          Returned(SettingsRowOf(1, DefaultFields), "create")]
    /\ UNCHANGED <<cop, cinst, storeVars, requestVars, statsVars, dashVars>>

\* get_or_create(pk=1): after IntegrityError, the second get
GetSettingsReget(p) ==
    /\ cpc[p] = "gs_reget"
    /\ cpc' = [cpc EXCEPT ![p] = "done"]
    /\ cres' = [cres EXCEPT ![p] =
                  IF HasPk(settingsRows, 1)
                  THEN Returned(RowWithPk(settingsRows, 1), "reget")
                  ELSE Raised("IntegrityError")]
    /\ UNCHANGED <<settingsRows, cop, cinst, storeVars, requestVars, statsVars, dashVars>>

\* ContactFormSettings(pk=...).save() of a new instance: the guard
SaveNewCheck(p, pk) ==
    /\ cpc[p] = "idle"
    /\ cop' = [cop EXCEPT ![p] = "save"]
    /\ cinst' = [cinst EXCEPT ![p] = pk]
    /\ IF SaveGuardRaises(pk, settingsRows)
       THEN /\ cpc' = [cpc EXCEPT ![p] = "done"]
            /\ cres' = [cres EXCEPT ![p] = Raised("ValueError")]
       ELSE /\ cpc' = [cpc EXCEPT ![p] = "sv_write"]
            /\ cres' = cres
    /\ UNCHANGED <<settingsRows, storeVars, requestVars, statsVars, dashVars>>

\* ContactFormSettings.save: super().save(), an UPDATE when the key is set
\* and present, an INSERT otherwise
SaveNewWrite(p) ==
    /\ cpc[p] = "sv_write"
    /\ LET pk == IF cinst[p] = NoPk THEN AutoPk(settingsRows) ELSE cinst[p]
           row == SettingsRowOf(pk, DefaultFields)
       IN /\ pk \in PKs
          /\ settingsRows' =
                {r \in settingsRows : r.pk # pk} \cup {row}
          /\ cres' = [cres EXCEPT ![p] = Returned(row, "save")]
    /\ cpc' = [cpc EXCEPT ![p] = "done"]
    /\ UNCHANGED <<cop, cinst, storeVars, requestVars, statsVars, dashVars>>

(***************************************************************************)
(* Visit tracking (main/views.py)                                          *)
(***************************************************************************)
\* request.META: the X-Forwarded-For entries, REMOTE_ADDR, and the flags
\* user_agents.parse derives from HTTP_USER_AGENT
MetaOf(xff, remote_addr, ua) ==
    [xff |-> xff, remote_addr |-> remote_addr, user_agent |-> ua]

UserAgentOf(mobile, tablet, pc) ==
    [is_mobile |-> mobile, is_tablet |-> tablet, is_pc |-> pc]

get_client_ip(meta) ==
    IF meta.xff # <<>> THEN meta.xff[1] ELSE meta.remote_addr

\* get_device_info(...)['device_type']
get_device_info(ua) ==
    IF ua.is_mobile THEN "mobile"
    ELSE IF ua.is_tablet THEN "tablet"
    ELSE IF ua.is_pc THEN "desktop"
    ELSE "unknown"

\* what requests.get(...) gives: an exception ("timeout", "connection"),
\* or a response with a status code and a body that is JSON or not
NotJson == [json |-> FALSE, data |-> <<>>]
JsonBody(data) == [json |-> TRUE, data |-> data]
GeoRaised(exc) == [kind |-> exc, status_code |-> 0, body |-> NotJson]
GeoResponse(code, body) == [kind |-> "response", status_code |-> code, body |-> body]

JsonGet(data, key, default) ==
    IF key \in DOMAIN data THEN data[key] ELSE default

EmptyLocation == [country |-> "", city |-> "", region |-> ""]

\* the body of the try block of get_location_info: the exception it
\* raises ("none" when it raises nothing), whether it returned, and what
TryResult(exc, returned, value) ==
    [exc |-> exc, returned |-> returned, value |-> value]

LookupBody(resp) ==
    IF resp.kind # "response" THEN TryResult(resp.kind, FALSE, EmptyLocation)
    ELSE IF resp.status_code # 200 THEN TryResult("none", FALSE, EmptyLocation)
    ELSE IF ~resp.body.json THEN TryResult("JSONDecodeError", FALSE, EmptyLocation)
    ELSE IF "status" \notin DOMAIN resp.body.data
         THEN TryResult("KeyError", FALSE, EmptyLocation)
    ELSE IF resp.body.data["status"] # "success"
         THEN TryResult("none", FALSE, EmptyLocation)
    ELSE TryResult("none", TRUE,
            [ country |-> JsonGet(resp.body.data, "country", ""),
              city    |-> JsonGet(resp.body.data, "city", ""),
              region  |-> JsonGet(resp.body.data, "regionName", "") ])

\* get_location_info with "except requests.RequestException" in place of
\* the bare except: what the body raises otherwise leaves the function
get_location_info_NarrowExcept(resp) ==
    LET body == LookupBody(resp)
    IN IF body.exc = "none" /\ body.returned
       THEN [raised |-> FALSE, location |-> body.value]
       ELSE [raised |-> body.exc \notin {"none", "Timeout", "ConnectionError"},
             location |-> EmptyLocation]

\* get_location_info: the bare except swallows whatever the body raises,
\* and everything that did not return falls through to the empty location
get_location_info(resp) ==
    LET body == LookupBody(resp)
    IN IF body.exc = "none" /\ body.returned
       THEN [raised |-> FALSE, location |-> body.value]
       ELSE [raised |-> FALSE, location |-> EmptyLocation]

PageViewOf(ip, url, location, device, day) ==
    [ ip_address  |-> ip,
      page_url    |-> url,
      country     |-> location.country,
      city        |-> location.city,
      region      |-> location.region,
      device_type |-> device,
      day         |-> day ]

\* track_page_view: the row it inserts, unless the lookup raised
track_page_view(meta, url, resp, day) ==
    LET info == get_location_info(resp)
    IN [ raised |-> info.raised,
         location |-> info.location,
         view |-> PageViewOf(get_client_ip(meta), url, info.location,
                             get_device_info(meta.user_agent), day) ]

\* the last call of track_page_view: the response the geolocation service
\* gave, the table before the call, what came back
TrackRecord(called, resp, views0, t) ==
    [ called |-> called, resp |-> resp, views0 |-> views0,
      raised |-> t.raised, location |-> t.location ]

(***************************************************************************)
(* The contact form (main/views.py, handle_contact_form)                   *)
(***************************************************************************)
NoFile == [present |-> FALSE, name |-> <<>>, size |-> 0]
FileOf(name, size) == [present |-> TRUE, name |-> name, size |-> size]

FormOf(name, whatsapp, email, description, attachment, ajax) ==
    [ name |-> name, whatsapp |-> whatsapp, email |-> email,
      project_description |-> description, attachment |-> attachment,
      ajax |-> ajax ]

\* the POST fields after .strip()
Cleaned(form) ==
    [ form EXCEPT !.name = Strip(form.name),
                  !.whatsapp = Strip(form.whatsapp),
                  !.email = Strip(form.email),
                  !.project_description = Strip(form.project_description) ]

\* error messages: the text and what is interpolated into it
ErrorOf(text, arg) == [text |-> text, arg |-> arg]
NoError == ErrorOf("", <<>>)
ErrRequired == ErrorOf("Todos os campos obrigatorios devem ser preenchidos", <<>>)
ErrEmail == ErrorOf("Email invalido", <<>>)
ErrWhatsapp == ErrorOf("Numero de WhatsApp invalido", <<>>)
ErrFileSize(mb) == ErrorOf("Arquivo muito grande. Maximo permitido: {}MB", <<ToString(mb)>>)
ErrFileType(types) ==
    ErrorOf("Tipo de arquivo nao permitido. Tipos aceitos: {}", Join(types, <<",", " ">>))
ErrInternal == ErrorOf("Erro interno do servidor. Tente novamente.", <<>>)

RequiredMissing(f) ==
    \/ f.name = <<>>
    \/ f.whatsapp = <<>>
    \/ f.email = <<>>
    \/ f.project_description = <<>>

\* WhatsappInvalid with eleven digits as the only length let through
WhatsappInvalid_ElevenOnly(whatsapp) ==
    Len(RemoveNonDigits(whatsapp)) # 11

WhatsappInvalid(whatsapp) ==
    LET whatsapp_clean == RemoveNonDigits(whatsapp)
    IN Len(whatsapp_clean) < 10 \/ Len(whatsapp_clean) > 11

\* FieldError with the email rule left out
FieldError_NoEmailRule(f) ==
    IF RequiredMissing(f) THEN ErrRequired
    ELSE IF WhatsappInvalid(f.whatsapp) THEN ErrWhatsapp
    ELSE NoError

\* the checks made before the settings are read, on the cleaned fields
FieldError(f) ==
    IF RequiredMissing(f) THEN ErrRequired
    ELSE IF ~EmailRegexMatch(f.email) THEN ErrEmail
    ELSE IF WhatsappInvalid(f.whatsapp) THEN ErrWhatsapp
    ELSE NoError

\* FileTooLarge with >= in place of >
FileTooLarge_AtLimit(attachment, fs) ==
    attachment.size >= fs.max_file_size_mb * 1024 * 1024

FileTooLarge(attachment, fs) ==
    attachment.size > fs.max_file_size_mb * 1024 * 1024

FileTypeRejected(attachment, fs) ==
    ~InList(FileExtension(attachment.name), AllowedTypes(fs.allowed_file_types))

\* FileError with the type checked before the size
FileError_TypeFirst(attachment, fs) ==
    IF ~attachment.present THEN NoError
    ELSE IF FileTypeRejected(attachment, fs)
         THEN ErrFileType(AllowedTypes(fs.allowed_file_types))
    ELSE IF FileTooLarge(attachment, fs) THEN ErrFileSize(fs.max_file_size_mb)
    ELSE NoError

\* the checks made on the attachment, with the settings
FileError(attachment, fs) ==
    IF ~attachment.present THEN NoError
    ELSE IF FileTooLarge(attachment, fs) THEN ErrFileSize(fs.max_file_size_mb)
    ELSE IF FileTypeRejected(attachment, fs)
         THEN ErrFileType(AllowedTypes(fs.allowed_file_types))
    ELSE NoError

\* str.format(name=..., email=..., whatsapp=..., date=...) on the template:
\* "ok", or the exception it raises
FormatKeys == {"name", "email", "whatsapp", "date"}

FormatOutcome(template) ==
    IF \E i \in DOMAIN template : template[i].kind = "brace" THEN "ValueError"
    ELSE IF \E i \in DOMAIN template :
                template[i].kind = "field" /\ template[i].text \notin FormatKeys
         THEN "KeyError"
    ELSE "ok"

\* the rendered text: the pieces, each field replaced by its value
Format(template, values) ==
    [i \in DOMAIN template |->
        IF template[i].kind = "field" THEN values[template[i].text]
        ELSE <<template[i].text>>]

\* AdminChannelEnabled without the test of the address
AdminChannelEnabled_NoAddressTest(fs) == fs.email_notifications

AdminChannelEnabled(fs) ==
    fs.email_notifications /\ fs.notification_email # <<>>

\* AutoReplyEnabled with the switch ignored
AutoReplyEnabled_Always(fs) == TRUE

AutoReplyEnabled(fs) == fs.auto_reply_enabled

\* responses
ResponseOf(kind, success, error) ==
    [kind |-> kind, success |-> success, error |-> error]
NoResponse == ResponseOf("none", FALSE, NoError)
ValidationResponse(error) == ResponseOf("json", FALSE, error)
SuccessResponse(ajax) ==
    ResponseOf(IF ajax THEN "json" ELSE "redirect", TRUE, NoError)
InternalErrorResponse(ajax) ==
    ResponseOf(IF ajax THEN "json" ELSE "redirect", FALSE, ErrInternal)
ServerError == ResponseOf("500", FALSE, NoError)

ContactOf(id, f, day) ==
    [ id |-> id, name |-> f.name, whatsapp |-> f.whatsapp, email |-> f.email,
      project_description |-> f.project_description,
      attachment |-> f.attachment.name,
      created_at |-> day, is_read |-> FALSE, notes |-> <<>> ]

MailOf(kind, to, contact) == [kind |-> kind, to |-> to, contact |-> contact]

NoForm == FormOf(<<>>, <<>>, <<>>, <<>>, NoFile, FALSE)

\* no request in flight
IdleRequest ==
    [ pc |-> "idle", form |-> NoForm, form_settings |-> DefaultFields,
      contact |-> 0, contacts0 |-> <<>>, outbox0 |-> <<>>,
      response |-> NoResponse ]

(***************************************************************************)
(* SiteStatistics (main/models.py)                                         *)
(***************************************************************************)
CountryCount(country, count) == [country |-> country, count |-> count]

\* a row with the field defaults
DefaultStats(date) ==
    [ date |-> date, total_views |-> 0, unique_visitors |-> 0,
      contact_submissions |-> 0,
      top |-> << CountryCount("", 0), CountryCount("", 0), CountryCount("", 0) >>,
      desktop_views |-> 0, mobile_views |-> 0, tablet_views |-> 0 ]

IdleUpdate ==
    [pc |-> "idle", stats |-> DefaultStats(0), views0 |-> 0, contacts0 |-> 0]

KnownCountries == <<"AR", "BR", "PT", "US">>

RECURSIVE Reverse(_)
Reverse(seq) == IF seq = <<>> THEN <<>> ELSE Append(Reverse(Tail(seq)), Head(seq))

\* ORDER BY count DESC names no order for equal counts: the database has
\* one, not known before the first such query and the same from then on;
\* here one of two opposite orders
TieOrders == {KnownCountries, Reverse(KnownCountries)}

\* the place of a country in an order
Rank(order, c) == CHOOSE i \in DOMAIN order : order[i] = c

\* filter(timestamp__date=date)
ViewsOn(views, date) == SelectSeq(views, LAMBDA v : v.day = date)

\* DistinctIps without distinct(): the rows are counted
DistinctIps_CountRows(views) == Len(views)

\* values('ip_address').distinct().count()
DistinctIps(views) == Cardinality({views[i].ip_address : i \in DOMAIN views})

\* PageView.is_unique_visitor of the i-th view: no earlier view has its address
is_unique_visitor(views, i) ==
    ~\E j \in DOMAIN views : j < i /\ views[j].ip_address = views[i].ip_address

\* filter(device_type=device).count()
DeviceCount(views, device) ==
    Cardinality({i \in DOMAIN views : views[i].device_type = device})

\* Contact.objects.filter(created_at__date=date).count()
ContactsOn(cs, date) ==
    Cardinality({i \in DOMAIN cs : cs[i].created_at = date})

CountryViews(views, country) ==
    Cardinality({i \in DOMAIN views : views[i].country = country})

\* exclude(country='').values('country').annotate(count=Count('country'))
\*     .order_by('-count')
\* OrderByCount without the exclude(country=''): the views not located
\* are a group like the others
RECURSIVE OrderByCount_KeepEmpty(_, _, _)
OrderByCount_KeepEmpty(views, countries, order) ==
    LET all == {views[i].country : i \in DOMAIN views}
        place(c) == IF c = "" THEN 0 ELSE Rank(order, c)
        RECURSIVE sorted(_)
        sorted(cs) ==
            IF cs = {} THEN <<>>
            ELSE LET first == CHOOSE c \in cs :
                                \A d \in cs \ {c} :
                                    \/ CountryViews(views, c) > CountryViews(views, d)
                                    \/ /\ CountryViews(views, c) = CountryViews(views, d)
                                       /\ place(c) < place(d)
                 IN <<CountryCount(first, CountryViews(views, first))>> \o sorted(cs \ {first})
    IN sorted(all)

RECURSIVE OrderByCount(_, _, _)
OrderByCount(views, countries, order) ==
    IF countries = {} THEN <<>>
    ELSE LET first == CHOOSE c \in countries :
                        \A d \in countries \ {c} :
                            \/ CountryViews(views, c) > CountryViews(views, d)
                            \/ /\ CountryViews(views, c) = CountryViews(views, d)
                               /\ Rank(order, c) < Rank(order, d)
         IN <<CountryCount(first, CountryViews(views, first))>>
               \o OrderByCount(views, countries \ {first}, order)

\* the slice [:n]
Take(seq, n) == SubSeq(seq, 1, IF Len(seq) < n THEN Len(seq) ELSE n)

TopCountries(views, n, order) ==
    Take(OrderByCount(views,
                      {views[i].country : i \in DOMAIN views} \ {""}, order), n)

\* the loop of setattr over the countries found
SetTopCountries(stats, country_stats) ==
    [stats EXCEPT !.top =
        [i \in 1..3 |-> IF i <= Len(country_stats) THEN country_stats[i]
                        ELSE stats.top[i]]]

\* SetTotalViews adding to the stored count
SetTotalViews_Accumulate(stats, daily_views) ==
    [stats EXCEPT !.total_views = stats.total_views + Len(daily_views)]

SetTotalViews(stats, daily_views) ==
    [stats EXCEPT !.total_views = Len(daily_views)]

CallRecord(u, row, views1, contacts1) ==
    [ date |-> row.date, row |-> row, views0 |-> u.views0,
      contacts0 |-> u.contacts0, views1 |-> views1, contacts1 |-> contacts1 ]

(***************************************************************************)
(* The dashboard (dashboard/views.py)                                      *)
(***************************************************************************)
Staff == 1..NumStaff

\* a GET parameter: absent, a text strptime rejects, or a date
AbsentParam == [given |-> FALSE, valid |-> FALSE, day |-> 0]
InvalidParam == [given |-> TRUE, valid |-> FALSE, day |-> 0]
DateParam(day) == [given |-> TRUE, valid |-> TRUE, day |-> day]

\* request.GET.get(name, default.strftime('%Y-%m-%d'))
ParamOrDefault(param, default) == IF param.given THEN param ELSE DateParam(default)

\* the range analytics works on: both texts parsed, and on ValueError from
\* either of them the thirty days up to today
DateRange(date_from, date_to, now) ==
    LET from == ParamOrDefault(date_from, now - 30)
        to == ParamOrDefault(date_to, now)
    IN IF from.valid /\ to.valid
       THEN [start_date |-> from.day, end_date |-> to.day]
       ELSE [start_date |-> now - 30, end_date |-> now]

\* strftime('%d/%m'): day of the month and month, the year dropped; day
\* number 0 is a 30 December, and the days modelled lie in November,
\* December and January
DayMonth(date) ==
    IF date <= -30 THEN [day |-> date + 60, month |-> 11]
    ELSE IF date <= 1 THEN [day |-> date + 30, month |-> 12]
    ELSE [day |-> date - 1, month |-> 1]

\* filter(timestamp__date__gte=start_date, timestamp__date__lte=end_date)
ViewsBetween(views, start_date, end_date) ==
    SelectSeq(views, LAMBDA v : v.day >= start_date /\ v.day <= end_date)

\* filter(created_at__date__gte=start_date, created_at__date__lte=end_date)
ContactsBetween(cs, start_date, end_date) ==
    SelectSeq(cs, LAMBDA c : c.created_at >= start_date /\ c.created_at <= end_date)

DailyEntry(date, views, visitors, cs) ==
    [date |-> DayMonth(date), views |-> views, visitors |-> visitors, contacts |-> cs]

\* DailyStats built from the days that have events only
RECURSIVE DailyStats_SkipEmptyDays(_, _, _, _)
DailyStats_SkipEmptyDays(page_views, cs, current_date, end_date) ==
    IF current_date > end_date THEN <<>>
    ELSE (IF ViewsOn(page_views, current_date) = <<>> /\ ContactsOn(cs, current_date) = 0
          THEN <<>>
          ELSE <<DailyEntry(current_date,
                            Len(ViewsOn(page_views, current_date)),
                            DistinctIps(ViewsOn(page_views, current_date)),
                            ContactsOn(cs, current_date))>>)
         \o DailyStats_SkipEmptyDays(page_views, cs, current_date + 1, end_date)

\* analytics: the while loop from start_date to end_date
RECURSIVE DailyStats(_, _, _, _)
DailyStats(page_views, cs, current_date, end_date) ==
    IF current_date > end_date THEN <<>>
    ELSE <<DailyEntry(current_date,
                      Len(ViewsOn(page_views, current_date)),
                      DistinctIps(ViewsOn(page_views, current_date)),
                      ContactsOn(cs, current_date))>>
         \o DailyStats(page_views, cs, current_date + 1, end_date)

ReportOf(called, range, daily_stats, top_countries, views0, contacts0) ==
    [ called |-> called, start_date |-> range.start_date, end_date |-> range.end_date,
      daily_stats |-> daily_stats, top_countries |-> top_countries,
      views0 |-> views0, contacts0 |-> contacts0 ]

NoReport == ReportOf(FALSE, [start_date |-> 0, end_date |-> 0], <<>>, <<>>, 0, 0)

\* strftime('%Y-%m-%d'): day number 0 is 30 December 2024
YearMonthDay(date) ==
    [ year |-> IF date <= 1 THEN 2024 ELSE 2025,
      month |-> DayMonth(date).month, day |-> DayMonth(date).day ]

\* the counts of one date, as both series take them
DayCounts(views, cs, date) ==
    [ views |-> Len(ViewsOn(views, date)),
      visitors |-> DistinctIps(ViewsOn(views, date)),
      contacts |-> ContactsOn(cs, date) ]

\* dashboard_home: for i in range(7), date = today - i, appended from i on
RECURSIVE HomeLoop(_, _, _, _)
HomeLoop(views, cs, now, i) ==
    IF i >= 7 THEN <<>>
    ELSE LET date == now - i
             counts == DayCounts(views, cs, date)
         IN <<DailyEntry(date, counts.views, counts.visitors, counts.contacts)>>
            \o HomeLoop(views, cs, now, i + 1)

\* dashboard_home: the loop, then daily_stats.reverse()
HomeDailyStats(views, cs, now) == Reverse(HomeLoop(views, cs, now, 0))

\* api_stats: week_ago = today - 7; for i in range(7), date = week_ago + i
RECURSIVE RecentStats(_, _, _, _)
RecentStats(views, cs, week_ago, i) ==
    IF i >= 7 THEN <<>>
    ELSE LET date == week_ago + i
             counts == DayCounts(views, cs, date)
         IN <<[ date |-> YearMonthDay(date), views |-> counts.views,
                visitors |-> counts.visitors, contacts |-> counts.contacts ]>>
            \o RecentStats(views, cs, week_ago, i + 1)

\* a daily series computed: the date it was computed on, the sizes of the
\* two tables then, the entries
SeriesOf(made, now, views0, contacts0, entries) ==
    [ made |-> made, today |-> now, views0 |-> views0, contacts0 |-> contacts0,
      entries |-> entries ]

NoSeries == SeriesOf(FALSE, 0, 0, 0, <<>>)

IdleStaff == [pc |-> "idle", method |-> "GET", id |-> 0, contact |-> ContactOf(0, NoForm, 0),
              notes |-> <<>>]

\* a notes update saved: the contact and the text
PostOf(made, id, notes) == [made |-> made, id |-> id, notes |-> notes]
NoPost == PostOf(FALSE, 0, <<>>)

\* Model.save() of a loaded instance: every column of the row is written
SaveContact(cs, contact) == [cs EXCEPT ![contact.id] = contact]

\* the context of landing.html
PageOf(rendered, total_views, total_contacts) ==
    [ rendered |-> rendered, total_views |-> total_views,
      total_contacts |-> total_contacts ]

NoPage == PageOf(FALSE, 0, 0)

Init ==
    /\ settingsRows = {}
    /\ cpc = [p \in Callers |-> "idle"]
    /\ cop = [p \in Callers |-> "none"]
    /\ cinst = [p \in Callers |-> NoPk]
    /\ cres = [p \in Callers |-> NoResult]
    /\ contacts = <<>>
    /\ pageViews = <<>>
    /\ outbox = <<>>
    /\ today = 0
    /\ req = IdleRequest
    /\ log = <<>>
    /\ nreq = 0
    /\ nposts = 0
    /\ lastTrack = TrackRecord(FALSE, GeoRaised("Timeout"), <<>>,
                                [raised |-> FALSE, location |-> EmptyLocation])
    /\ statsRows = {}
    /\ upd = IdleUpdate
    /\ calls = <<>>
    /\ tieOrder = <<>>
    /\ staff = [s \in Staff |-> IdleStaff]
    /\ report = NoReport
    /\ lastPost = NoPost
    /\ page = NoPage
    /\ home = NoSeries
    /\ api = NoSeries

\* landing_page, POST: track_page_view, then handle_contact_form is entered
LandingPost(meta, resp, form) ==
    /\ req.pc = "idle"
    /\ nreq < MaxRequests
    /\ nreq' = nreq + 1
    /\ LET t == track_page_view(meta, <<"/">>, resp, today)
       IN /\ IF t.raised
             THEN /\ req' = [IdleRequest EXCEPT !.pc = "done", !.form = form,
                                                 !.response = ServerError]
                  /\ log' = <<>>
                  /\ UNCHANGED pageViews
             ELSE /\ pageViews' = Append(pageViews, t.view)
                  /\ req' = [ IdleRequest EXCEPT
                                !.pc = "form", !.form = form,
                                !.contacts0 = contacts,
                                !.outbox0 = outbox ]
                  /\ log' = <<"pageview">>
          /\ lastTrack' = TrackRecord(TRUE, resp, pageViews, t)
    /\ UNCHANGED <<settingsVars, contacts, outbox, today, nposts, statsVars, dashVars>>

\* ValidateForm with the Contact saved before the attachment is checked
ValidateForm_SaveBeforeFileCheck ==
    /\ req.pc = "form"
    /\ LET f == Cleaned(req.form)
           rows == GetOrCreateRows(settingsRows)
           fs == RowWithPk(rows, 1).fields
       IN IF FieldError(f) # NoError
          THEN /\ req' = [req EXCEPT !.pc = "done",
                                      !.response = ValidationResponse(FieldError(f))]
               /\ log' = Append(log, "rejected")
               /\ UNCHANGED <<settingsRows, contacts>>
          ELSE /\ settingsRows' = rows
               /\ IF FileError(f.attachment, fs) # NoError
                  THEN /\ req' = [req EXCEPT
                                    !.pc = "done", !.form_settings = fs,
                                    !.response = ValidationResponse(
                                                    FileError(f.attachment, fs))]
                       /\ log' = Append(log, "rejected")
                       /\ contacts' = Append(contacts,
                                ContactOf(Len(contacts) + 1, f, today))
                  ELSE /\ req' = [req EXCEPT !.pc = "create", !.form_settings = fs]
                       /\ log' = Append(log, "valid")
                       /\ UNCHANGED contacts
    /\ UNCHANGED <<cpc, cop, cinst, cres, pageViews, outbox, today, nreq, nposts,
                   lastTrack, statsVars, dashVars>>

\* handle_contact_form up to the creation of the Contact: the fields are
\* read and trimmed, checked in order, the settings fetched, the file checked
ValidateForm ==
    /\ req.pc = "form"
    /\ LET f == Cleaned(req.form)
           rows == GetOrCreateRows(settingsRows)
           fs == RowWithPk(rows, 1).fields
       IN IF FieldError(f) # NoError
          THEN /\ req' = [req EXCEPT !.pc = "done",
                                      !.response = ValidationResponse(FieldError(f))]
               /\ log' = Append(log, "rejected")
               /\ UNCHANGED settingsRows
          ELSE /\ settingsRows' = rows
               /\ IF FileError(f.attachment, fs) # NoError
                  THEN /\ req' = [req EXCEPT
                                    !.pc = "done", !.form_settings = fs,
                                    !.response = ValidationResponse(
                                                    FileError(f.attachment, fs))]
                       /\ log' = Append(log, "rejected")
                  ELSE /\ req' = [req EXCEPT !.pc = "create", !.form_settings = fs]
                       /\ log' = Append(log, "valid")
    /\ UNCHANGED <<cpc, cop, cinst, cres, storeVars, nreq, nposts, lastTrack,
                   statsVars, dashVars>>

\* CreateContact with the exception of the insert swallowed
CreateContact_Swallow(raises) ==
    /\ req.pc = "create"
    /\ IF raises
       THEN /\ req' = [req EXCEPT !.pc = "admin"]
            /\ log' = Append(log, "create_failed")
            /\ UNCHANGED contacts
       ELSE /\ contacts' = Append(contacts,
                              ContactOf(Len(contacts) + 1, Cleaned(req.form), today))
            /\ req' = [req EXCEPT !.pc = "admin", !.contact = Len(contacts) + 1]
            /\ log' = Append(log, "created")
    /\ UNCHANGED <<settingsVars, pageViews, outbox, today, nreq, nposts,
                   lastTrack, statsVars, dashVars>>

\* Contact.objects.create(...): the row is inserted, or the database raises
\* and the outer handler answers with the internal error
CreateContact(raises) ==
    /\ req.pc = "create"
    /\ IF raises
       THEN /\ req' = [req EXCEPT !.pc = "done",
                                  !.response = InternalErrorResponse(req.form.ajax)]
            /\ log' = Append(log, "create_failed")
            /\ UNCHANGED contacts
       ELSE /\ contacts' = Append(contacts,
                              ContactOf(Len(contacts) + 1, Cleaned(req.form), today))
            /\ req' = [req EXCEPT !.pc = "admin", !.contact = Len(contacts) + 1]
            /\ log' = Append(log, "created")
    /\ UNCHANGED <<settingsVars, pageViews, outbox, today, nreq, nposts,
                   lastTrack, statsVars, dashVars>>

\* the admin notification: composed, the file attached, sent; whatever is
\* raised on the way is caught and printed
NotifyAdmin(outcome) ==
    /\ req.pc = "admin"
    /\ IF AdminChannelEnabled(req.form_settings)
       THEN /\ outcome = "attach_error" => req.form.attachment.present
            /\ log' = log \o <<"admin", IF outcome = "sent" THEN "admin_sent"
                                                              ELSE "admin_failed">>
            /\ outbox' = IF outcome = "sent"
                         THEN Append(outbox, MailOf("admin",
                                  req.form_settings.notification_email, req.contact))
                         ELSE outbox
       ELSE /\ outcome = "sent"
            /\ UNCHANGED <<log, outbox>>
    /\ req' = [req EXCEPT !.pc = "auto"]
    /\ UNCHANGED <<settingsVars, contacts, pageViews, today, nreq, nposts,
                   lastTrack, statsVars, dashVars>>

\* NotifyApplicant with the template rendered outside the try block
NotifyApplicant_RenderOutsideTry(delivered) ==
    /\ req.pc = "auto"
    /\ IF AutoReplyEnabled(req.form_settings)
       THEN /\ log' = log \o << "auto",
                              IF FormatOutcome(req.form_settings.auto_reply_message) # "ok"
                              THEN "auto_failed"
                              ELSE IF delivered THEN "auto_sent" ELSE "auto_dropped" >>
            /\ outbox' =
                 IF FormatOutcome(req.form_settings.auto_reply_message) = "ok"
                    /\ delivered
                 THEN Append(outbox, MailOf("auto", Strip(req.form.email), req.contact))
                 ELSE outbox
            /\ req' = [req EXCEPT
                         !.pc = "done",
                         !.response =
                            IF FormatOutcome(req.form_settings.auto_reply_message) = "ok"
                            THEN SuccessResponse(req.form.ajax)
                            ELSE InternalErrorResponse(req.form.ajax)]
       ELSE /\ delivered
            /\ UNCHANGED <<log, outbox>>
            /\ req' = [req EXCEPT !.pc = "done",
                                  !.response = SuccessResponse(req.form.ajax)]
    /\ UNCHANGED <<settingsVars, contacts, pageViews, today, nreq, nposts,
                   lastTrack, statsVars, dashVars>>

\* the auto-reply: rendered with str.format, sent with fail_silently=True;
\* whatever is raised is caught and printed. Then the success response.
NotifyApplicant(delivered) ==
    /\ req.pc = "auto"
    /\ IF AutoReplyEnabled(req.form_settings)
       THEN /\ log' = log \o << "auto",
                              IF FormatOutcome(req.form_settings.auto_reply_message) # "ok"
                              THEN "auto_failed"
                              ELSE IF delivered THEN "auto_sent" ELSE "auto_dropped" >>
            /\ outbox' =
                 IF FormatOutcome(req.form_settings.auto_reply_message) = "ok"
                    /\ delivered
                 THEN Append(outbox, MailOf("auto", Strip(req.form.email), req.contact))
                 ELSE outbox
       ELSE /\ delivered
            /\ UNCHANGED <<log, outbox>>
    /\ req' = [req EXCEPT !.pc = "done", !.response = SuccessResponse(req.form.ajax)]
    /\ UNCHANGED <<settingsVars, contacts, pageViews, today, nreq, nposts,
                   lastTrack, statsVars, dashVars>>

\* settings_view, POST: get_settings, every field overwritten, save
SettingsPost(fields) ==
    /\ nposts < MaxSettingsPosts
    /\ nposts' = nposts + 1
    /\ settingsRows' =
         {r \in GetOrCreateRows(settingsRows) : r.pk # 1}
            \cup {SettingsRowOf(1, fields)}
    /\ UNCHANGED <<cpc, cop, cinst, cres, storeVars, req, log, nreq, lastTrack,
                   statsVars, dashVars>>

\* the response is returned: the request and its locals are gone
ReturnResponse ==
    /\ req.pc = "done"
    /\ req' = IdleRequest
    /\ log' = <<>>
    /\ UNCHANGED <<settingsVars, storeVars, nreq, nposts, lastTrack, statsVars, dashVars>>

\* portfolio_detail: track_page_view, then the page
PortfolioDetail(meta, project_id, resp) ==
    /\ LET t == track_page_view(meta, <<"/portfolio/", project_id, "/">>, resp, today)
       IN /\ pageViews' = IF t.raised THEN pageViews ELSE Append(pageViews, t.view)
          /\ lastTrack' = TrackRecord(TRUE, resp, pageViews, t)
    /\ UNCHANGED <<settingsVars, contacts, outbox, today, req, log, nreq, nposts,
                   statsVars, dashVars>>

\* LandingGet with the two counts taken before track_page_view is called
LandingGet_CountFirst(meta, resp) ==
    /\ LET t == track_page_view(meta, <<"/">>, resp, today)
       IN /\ page' = PageOf(TRUE, Len(pageViews), Len(contacts))
          /\ pageViews' = IF t.raised THEN pageViews ELSE Append(pageViews, t.view)
          /\ lastTrack' = TrackRecord(TRUE, resp, pageViews, t)
    /\ UNCHANGED <<settingsVars, contacts, outbox, today, req, log, nreq, nposts,
                   statsVars, staff, report, lastPost, home, api>>

\* landing_page, GET: track_page_view, then the page with the two counts
LandingGet(meta, resp) ==
    /\ LET t == track_page_view(meta, <<"/">>, resp, today)
       IN /\ pageViews' = IF t.raised THEN pageViews ELSE Append(pageViews, t.view)
          /\ lastTrack' = TrackRecord(TRUE, resp, pageViews, t)
          /\ page' = IF t.raised THEN page
                     ELSE PageOf(TRUE, Len(pageViews'), Len(contacts))
    /\ UNCHANGED <<settingsVars, contacts, outbox, today, req, log, nreq, nposts,
                   statsVars, staff, report, lastPost, home, api>>

\* midnight
AdvanceDay ==
    /\ today < MaxDay
    /\ today' = today + 1
    /\ UNCHANGED <<settingsVars, contacts, pageViews, outbox, requestVars,
                   statsVars, dashVars>>

\* update_daily_stats(date): get_or_create(date=date)
UpdGetOrCreate(date) ==
    /\ upd.pc = "idle"
    /\ Len(calls) < MaxUpdates
    /\ IF \E r \in statsRows : r.date = date
       THEN /\ upd' = [ pc |-> "total",
                        stats |-> CHOOSE r \in statsRows : r.date = date,
                        views0 |-> Len(pageViews), contacts0 |-> Len(contacts) ]
            /\ UNCHANGED statsRows
       ELSE /\ statsRows' = statsRows \cup {DefaultStats(date)}
            /\ upd' = [ pc |-> "total", stats |-> DefaultStats(date),
                        views0 |-> Len(pageViews), contacts0 |-> Len(contacts) ]
    /\ UNCHANGED <<settingsVars, storeVars, requestVars, calls, tieOrder, dashVars>>

\* stats.total_views = daily_views.count()
UpdTotalViews ==
    /\ upd.pc = "total"
    /\ upd' = [upd EXCEPT !.pc = "unique",
                          !.stats = SetTotalViews(upd.stats,
                                        ViewsOn(pageViews, upd.stats.date))]
    /\ UNCHANGED <<settingsVars, storeVars, requestVars, statsRows, calls,
                   tieOrder, dashVars>>

\* stats.unique_visitors = daily_views.values('ip_address').distinct().count()
UpdUniqueVisitors ==
    /\ upd.pc = "unique"
    /\ upd' = [upd EXCEPT !.pc = "contacts",
                          !.stats.unique_visitors =
                              DistinctIps(ViewsOn(pageViews, upd.stats.date))]
    /\ UNCHANGED <<settingsVars, storeVars, requestVars, statsRows, calls,
                   tieOrder, dashVars>>

\* stats.contact_submissions = Contact.objects.filter(...).count()
UpdContactSubmissions ==
    /\ upd.pc = "contacts"
    /\ upd' = [upd EXCEPT !.pc = "desktop",
                          !.stats.contact_submissions =
                              ContactsOn(contacts, upd.stats.date)]
    /\ UNCHANGED <<settingsVars, storeVars, requestVars, statsRows, calls,
                   tieOrder, dashVars>>

\* stats.desktop_views = daily_views.filter(device_type='desktop').count()
UpdDesktopViews ==
    /\ upd.pc = "desktop"
    /\ upd' = [upd EXCEPT !.pc = "mobile",
                          !.stats.desktop_views =
                              DeviceCount(ViewsOn(pageViews, upd.stats.date), "desktop")]
    /\ UNCHANGED <<settingsVars, storeVars, requestVars, statsRows, calls,
                   tieOrder, dashVars>>

\* stats.mobile_views = daily_views.filter(device_type='mobile').count()
UpdMobileViews ==
    /\ upd.pc = "mobile"
    /\ upd' = [upd EXCEPT !.pc = "tablet",
                          !.stats.mobile_views =
                              DeviceCount(ViewsOn(pageViews, upd.stats.date), "mobile")]
    /\ UNCHANGED <<settingsVars, storeVars, requestVars, statsRows, calls,
                   tieOrder, dashVars>>

\* stats.tablet_views = daily_views.filter(device_type='tablet').count()
UpdTabletViews ==
    /\ upd.pc = "tablet"
    /\ upd' = [upd EXCEPT !.pc = "top",
                          !.stats.tablet_views =
                              DeviceCount(ViewsOn(pageViews, upd.stats.date), "tablet")]
    /\ UNCHANGED <<settingsVars, storeVars, requestVars, statsRows, calls,
                   tieOrder, dashVars>>

\* the top three countries, written into the fields they have values for
UpdTopCountries ==
    /\ upd.pc = "top"
    /\ \E order \in TieOrders :
          /\ tieOrder \in {<<>>, order}
          /\ tieOrder' = order
          /\ upd' = [upd EXCEPT !.pc = "save",
                                !.stats = SetTopCountries(upd.stats,
                                              TopCountries(ViewsOn(pageViews, upd.stats.date),
                                                           3, order))]
    /\ UNCHANGED <<settingsVars, storeVars, requestVars, statsRows, calls, dashVars>>

\* stats.save(): the row of that date is overwritten; the call returns
UpdSave ==
    /\ upd.pc = "save"
    /\ statsRows' = {r \in statsRows : r.date # upd.stats.date} \cup {upd.stats}
    /\ calls' = Append(calls, CallRecord(upd, upd.stats, Len(pageViews), Len(contacts)))
    /\ upd' = IdleUpdate
    /\ UNCHANGED <<settingsVars, storeVars, requestVars, tieOrder, dashVars>>

(***************************************************************************)
(* The requests and the environment the model draws from                   *)
(***************************************************************************)
\* contact_detail: get_object_or_404 (an unknown id raises Http404 and
\* changes nothing)
DetailLoad(s, method, contact_id, notes) ==
    /\ staff[s].pc = "idle"
    /\ contact_id \in DOMAIN contacts
    /\ staff' = [staff EXCEPT ![s] =
                    [ pc |-> "mark", method |-> method, id |-> contact_id,
                      contact |-> contacts[contact_id],
                      notes |-> IF method = "POST" THEN notes ELSE <<>> ]]
    /\ UNCHANGED <<settingsVars, storeVars, requestVars, statsVars, report, lastPost, page, home, api>>

\* DetailMark marking the contact on GET only
DetailMark_OnlyGet(s) ==
    /\ staff[s].pc = "mark"
    /\ IF ~staff[s].contact.is_read /\ staff[s].method = "GET"
       THEN /\ contacts' = SaveContact(contacts, [staff[s].contact EXCEPT !.is_read = TRUE])
            /\ staff' = [staff EXCEPT ![s].contact.is_read = TRUE, ![s].pc = "done"]
       ELSE /\ staff' = [staff EXCEPT ![s].pc =
                            IF staff[s].method = "POST" THEN "notes" ELSE "done"]
            /\ UNCHANGED contacts
    /\ UNCHANGED <<settingsVars, pageViews, outbox, today, requestVars, statsVars,
                   report, lastPost, page, home, api>>

\* contact_detail: the instance loaded is marked as read and saved if it
\* was unread; a GET then renders the page
DetailMark(s) ==
    /\ staff[s].pc = "mark"
    /\ IF ~staff[s].contact.is_read
       THEN /\ contacts' = SaveContact(contacts, [staff[s].contact EXCEPT !.is_read = TRUE])
            /\ staff' = [staff EXCEPT ![s].contact.is_read = TRUE,
                                      ![s].pc = IF staff[s].method = "POST"
                                                THEN "notes" ELSE "done"]
       ELSE /\ staff' = [staff EXCEPT ![s].pc =
                            IF staff[s].method = "POST" THEN "notes" ELSE "done"]
            /\ UNCHANGED contacts
    /\ UNCHANGED <<settingsVars, pageViews, outbox, today, requestVars, statsVars,
                   report, lastPost, page, home, api>>

\* contact_detail, POST: the notes are set on the instance and it is saved;
\* the redirect follows
DetailNotes(s) ==
    /\ staff[s].pc = "notes"
    /\ contacts' = SaveContact(contacts, [staff[s].contact EXCEPT !.notes = staff[s].notes])
    /\ staff' = [staff EXCEPT ![s].contact.notes = staff[s].notes, ![s].pc = "done"]
    /\ lastPost' = PostOf(TRUE, staff[s].id, staff[s].notes)
    /\ UNCHANGED <<settingsVars, pageViews, outbox, today, requestVars, statsVars, report, page, home, api>>

\* the response of contact_detail is returned
DetailReturn(s) ==
    /\ staff[s].pc = "done"
    /\ staff' = [staff EXCEPT ![s] = IdleStaff]
    /\ UNCHANGED <<settingsVars, storeVars, requestVars, statsVars, report, lastPost, page, home, api>>

\* analytics: the date range, the daily statistics, the top countries
Analytics(date_from, date_to) ==
    /\ LET range == DateRange(date_from, date_to, today)
           page_views == ViewsBetween(pageViews, range.start_date, range.end_date)
           cs == ContactsBetween(contacts, range.start_date, range.end_date)
       IN \E order \in TieOrders :
             /\ tieOrder \in {<<>>, order}
             /\ tieOrder' = order
             /\ report' = ReportOf(TRUE, range,
                                   DailyStats(page_views, cs, range.start_date,
                                              range.end_date),
                                   TopCountries(page_views, 10, order),
                                   Len(pageViews), Len(contacts))
    /\ UNCHANGED <<settingsVars, storeVars, requestVars, statsRows, upd, calls, staff,
                   lastPost, page, home, api>>

\* dashboard_home: the statistics of the last seven days
DashboardHome ==
    /\ home' = SeriesOf(TRUE, today, Len(pageViews), Len(contacts),
                        HomeDailyStats(pageViews, contacts, today))
    /\ UNCHANGED <<settingsVars, storeVars, requestVars, statsVars, staff, report,
                   lastPost, page, api>>

\* api_stats: recent_activity
ApiStats ==
    /\ api' = SeriesOf(TRUE, today, Len(pageViews), Len(contacts),
                       RecentStats(pageViews, contacts, today - 7, 0))
    /\ UNCHANGED <<settingsVars, storeVars, requestVars, statsVars, staff, report,
                   lastPost, page, home>>

Str_blank == <<" ">>
Str_name == <<" ", "A", "n">>
Str_description == <<"s", "i", "t", "e">>

Email_abc == <<"a", "b", "c">>
Email_no_tld == <<"a", "@", "b">>
Email_trailing_space == <<"a", "@", "b", ".", "c", " ">>
Email_ok == <<"a", "@", "b", ".", "c">>
Email_inner_space == <<"a", " ", "@", "b", ".", "c">>

Whatsapp_formatted ==
    <<"(", "1", "1", ")", " ", "9", "1", "2", "3", "4", "-", "5", "6", "7", "8">>
Whatsapp_short == <<"1", "2", "3">>

Name_cv_pdf == <<"c", "v", ".", "P", "D", "F">>
Name_evil_exe == <<"e", "v", "i", "l", ".", "e", "x", "e">>

Bytes_10MB == 10 * 1024 * 1024
Bytes_11MB == 11 * 1024 * 1024

Names == {Str_blank, Str_name}
Emails == { Str_blank, Email_abc, Email_no_tld, Email_trailing_space,
            Email_ok, Email_inner_space }
Whatsapps == {Whatsapp_formatted, Whatsapp_short}
Attachments ==
    { NoFile, FileOf(Name_cv_pdf, Bytes_10MB), FileOf(Name_cv_pdf, Bytes_11MB),
      FileOf(Name_evil_exe, 1024), FileOf(Name_evil_exe, Bytes_11MB) }

\* a form that passes every check
ValidForm ==
    FormOf(Str_name, Whatsapp_formatted, Email_ok, Str_description, NoFile, TRUE)

\* the submissions: every combination of a good or bad name, email, WhatsApp
\* number and attachment, and the valid form with one field varied
Forms ==
    { FormOf(n, w, e, Str_description, a, TRUE) :
        n \in Names, w \in Whatsapps, e \in {Email_ok, Email_abc},
        a \in Attachments \ {FileOf(Name_cv_pdf, Bytes_10MB)} }
    \cup { [ValidForm EXCEPT !.email = e] : e \in Emails }
    \cup { [ValidForm EXCEPT !.project_description = d] : d \in {<<>>, Str_blank} }
    \cup { [ValidForm EXCEPT !.whatsapp = Str_blank] }
    \cup { [ValidForm EXCEPT !.attachment = a, !.ajax = x] :
              a \in {NoFile, FileOf(Name_cv_pdf, Bytes_10MB)}, x \in BOOLEAN }

\* templates staff can save: the default, one naming a field format() is
\* not given, one with a brace that opens nothing
Template_unknown_field == <<Lit("Ola "), Field("nome")>>
Template_stray_brace == <<Lit("Ola "), StrayBrace>>

SettingsChoices ==
    [ email_notifications : BOOLEAN,
      notification_email  : {<<>>, DefaultNotificationEmail},
      auto_reply_enabled  : BOOLEAN,
      auto_reply_message  : {DefaultAutoReplyMessage, Template_unknown_field,
                             Template_stray_brace},
      max_file_size_mb    : {DefaultMaxFileSizeMb},
      allowed_file_types  : {DefaultAllowedFileTypes} ]

UA_phone == UserAgentOf(TRUE, FALSE, FALSE)
UA_tablet == UserAgentOf(FALSE, TRUE, FALSE)
UA_pc == UserAgentOf(FALSE, FALSE, TRUE)
UA_bot == UserAgentOf(FALSE, FALSE, FALSE)

GeoResponses ==
    { GeoRaised("Timeout"),
      GeoRaised("ConnectionError"),
      GeoResponse(500, NotJson),
      GeoResponse(200, NotJson),
      GeoResponse(200, JsonBody(<<>>)),
      GeoResponse(200, JsonBody([status |-> "fail"])),
      GeoResponse(200, JsonBody([status |-> "success"])),
      GeoResponse(200, JsonBody([status |-> "success", country |-> "BR",
                                 city |-> "Recife", regionName |-> "PE"])) }

\* the lookups made while a form is posted: one that fails, one that answers
FormGeoResponses ==
    { GeoRaised("Timeout"),
      GeoResponse(200, JsonBody([status |-> "success", country |-> "BR",
                                 city |-> "Recife", regionName |-> "PE"])) }

FormMetas == {MetaOf(<<>>, "10.0.0.1", UA_pc)}

Metas ==
    { MetaOf(<<>>, "10.0.0.1", UA_pc),
      MetaOf(<<"10.0.0.2", "10.0.0.1">>, "10.0.0.1", UA_phone),
      MetaOf(<<>>, "10.0.0.3", UA_tablet),
      MetaOf(<<>>, "10.0.0.4", UA_bot) }

GeoSuccess(country) ==
    GeoResponse(200, JsonBody([status |-> "success", country |-> country,
                               city |-> "", regionName |-> ""]))

\* the visitor who posts the form, and the answer that locates them
Visitor_pc == MetaOf(<<>>, "10.0.0.1", UA_pc)
Located_BR == GeoSuccess("BR")

VisitOf(meta, resp) == [meta |-> meta, resp |-> resp]

\* the visits the statistics are computed over
StatVisits ==
    { VisitOf(MetaOf(<<>>, "10.0.0.1", UA_pc), GeoSuccess("BR")),
      VisitOf(MetaOf(<<"10.0.0.2", "10.0.0.1">>, "10.0.0.1", UA_phone), GeoSuccess("US")),
      VisitOf(MetaOf(<<>>, "10.0.0.3", UA_tablet), GeoRaised("Timeout")) }

Days == 0..MaxDay

\* submissions that pass, fail a field validation, fail the file validation
PageForms ==
    { ValidForm,
      [ValidForm EXCEPT !.email = Email_abc],
      [ValidForm EXCEPT !.attachment = FileOf(Name_evil_exe, Bytes_10MB)] }

\* the visits the top countries are computed over: one visitor, located in
\* one of the known countries or not located
TopResponses ==
    {GeoSuccess(KnownCountries[i]) : i \in DOMAIN KnownCountries} \cup {GeoRaised("Timeout")}

\* WhatsApp numbers around the two bounds: no digit, 3, 9, 10, 11 (plain and
\* formatted) and 12 digits
Whatsapp_letters == <<"z", "a", "p">>
Whatsapp_9 == <<"1", "1", "9", "1", "2", "3", "4", "5", "6">>
Whatsapp_10 == <<"1", "1", " ", "9", "1", "2", "3", "-", "4", "5", "6", "7">>
Whatsapp_11 == <<"1", "1", "9", "1", "2", "3", "4", "5", "6", "7", "8">>
Whatsapp_12 == <<"+", "5", "5", "1", "1", "9", "1", "2", "3", "4", "5", "6", "7">>

RuleWhatsapps ==
    { Whatsapp_letters, Whatsapp_short, Whatsapp_9, Whatsapp_10, Whatsapp_11,
      Whatsapp_formatted, Whatsapp_12 }

\* file names: extension in capitals, two dots, no dot, a rejected type
Name_tar_txt == <<"a", ".", "t", "a", "r", ".", "t", "x", "t">>
Name_txt == <<"t", "x", "t">>
Name_doc_bak == <<"a", ".", "d", "o", "c", ".", "b", "a", "k">>

RuleAttachments ==
    { FileOf(n, size) :
        n \in {Name_cv_pdf, Name_tar_txt, Name_txt, Name_doc_bak, Name_evil_exe},
        size \in {1024, 1024 * 1024, 1024 * 1024 + 1, Bytes_10MB, Bytes_10MB + 1,
                  Bytes_11MB} }

RuleForms ==
    { [ValidForm EXCEPT !.whatsapp = w] : w \in RuleWhatsapps }
    \cup { [ValidForm EXCEPT !.attachment = a] : a \in RuleAttachments }

\* settings staff can save: the defaults, and a limit of 1 MB with a list
\* written with capitals and spaces
Types_pdf_exe == <<"P", "D", "F", ",", " ", "e", "x", "e", " ">>

RuleSettings ==
    { DefaultFields,
      [DefaultFields EXCEPT !.max_file_size_mb = 1, !.allowed_file_types = Types_pdf_exe] }

\* notes staff write
Note_called == <<"c", "a", "l", "l", "e", "d">>
Note_quote == <<"q", "u", "o", "t", "e">>
NoteTexts == {<<>>, Note_called, Note_quote}

\* the date_from and date_to of the analytics requests: none, one of them
\* unparsable, one given and the other absent, ranges of one day and of
\* several, a range that ends before it starts
DateParams ==
    { <<AbsentParam, AbsentParam>>,
      <<InvalidParam, DateParam(0)>>,
      <<DateParam(0), InvalidParam>>,
      <<DateParam(MaxDay), AbsentParam>>,
      <<DateParam(0), DateParam(0)>>,
      <<DateParam(-1), DateParam(MaxDay)>>,
      <<DateParam(0), DateParam(MaxDay)>>,
      <<DateParam(MaxDay), DateParam(0)>> }

AdminOutcomes == {"sent", "attach_error", "send_error"}

NextContact ==
    \/ \E meta \in FormMetas, resp \in FormGeoResponses, form \in Forms :
          LandingPost(meta, resp, form)
    \/ ValidateForm
    \/ \E raises \in BOOLEAN : CreateContact(raises)
    \/ \E outcome \in AdminOutcomes : NotifyAdmin(outcome)
    \/ \E delivered \in BOOLEAN : NotifyApplicant(delivered)
    \/ \E fields \in SettingsChoices : SettingsPost(fields)
    \/ ReturnResponse

SpecContact == Init /\ [][NextContact]_vars

(***************************************************************************)
(* Properties of the contact form                                          *)
(***************************************************************************)
InLog(e) == \E i \in DOMAIN log : log[i] = e

CountLog(e) == Cardinality({i \in DOMAIN log : log[i] = e})

\* handle_contact_form has run to its return
Handled == req.pc = "done" /\ req.response # ServerError

\* the Contact the submission in flight stands for
SubmittedContact ==
    ContactOf(Len(req.contacts0) + 1, Cleaned(req.form), today)

\* the five rules, each stated on the submitted form
Rule1Violated(form) ==
    \E field \in {form.name, form.whatsapp, form.email, form.project_description} :
        Strip(field) = <<>>

Rule2Violated(form) == ~EmailRegexMatch(Strip(form.email))

Rule3Violated(form) == Len(RemoveNonDigits(form.whatsapp)) \notin {10, 11}

Rule4Violated(form, fs) ==
    form.attachment.present
        /\ form.attachment.size > fs.max_file_size_mb * 1024 * 1024

Rule5Violated(form, fs) ==
    form.attachment.present
        /\ ~InList(FileExtension(form.attachment.name),
                   AllowedTypes(fs.allowed_file_types))

SubmissionValid(form, fs) ==
    /\ ~Rule1Violated(form)
    /\ ~Rule2Violated(form)
    /\ ~Rule3Violated(form)
    /\ ~Rule4Violated(form, fs)
    /\ ~Rule5Violated(form, fs)

\* C1: a valid submission whose insert the database accepts leaves exactly
\* one new Contact, holding the trimmed fields, and each enabled channel is
\* attempted exactly once: the admin mail when email_notifications is true
\* and notification_email is non-empty, the auto-reply when
\* auto_reply_enabled is true.
C1_ValidSubmissionPersistsAndNotifies ==
    (Handled /\ SubmissionValid(req.form, req.form_settings)
        /\ ~InLog("create_failed"))
    => /\ contacts = Append(req.contacts0, SubmittedContact)
       /\ CountLog("admin") =
            (IF req.form_settings.email_notifications
                /\ req.form_settings.notification_email # <<>>
             THEN 1 ELSE 0)
       /\ CountLog("auto") =
            (IF req.form_settings.auto_reply_enabled THEN 1 ELSE 0)

C1_Witness ==
    /\ Handled
    /\ SubmissionValid(req.form, req.form_settings)
    /\ req.form.attachment.present
    /\ req.form_settings.email_notifications
    /\ req.form_settings.notification_email # <<>>
    /\ ~req.form_settings.auto_reply_enabled
    /\ contacts = Append(req.contacts0, SubmittedContact)
    /\ CountLog("admin") = 1
    /\ CountLog("auto") = 0

OtherFieldsGiven(form) ==
    /\ Strip(form.name) # <<>>
    /\ Strip(form.whatsapp) # <<>>
    /\ Strip(form.project_description) # <<>>

RejectedWithEmailError ==
    /\ req.response = ValidationResponse(ErrEmail)
    /\ contacts = req.contacts0

\* C2 as stated: the emails "abc", "a@b" and "a@b.c " (ending in a space),
\* with the other required fields given, are rejected with the email error
\* and nothing is persisted.
C2_MalformedEmailRejected_Original ==
    (Handled /\ OtherFieldsGiven(req.form)
        /\ req.form.email \in {Email_abc, Email_no_tld, Email_trailing_space})
    => RejectedWithEmailError

\* C2 amended: an email that is non-empty and does not match the pattern
\* after its surrounding whitespace is trimmed, with the other required
\* fields given, is rejected with the email error and nothing is persisted;
\* "a@b.c " is trimmed to "a@b.c" and is not rejected by the email rule.
C2_MalformedAfterTrimRejected ==
    /\ (Handled /\ OtherFieldsGiven(req.form)
            /\ Strip(req.form.email) # <<>>
            /\ ~EmailRegexMatch(Strip(req.form.email)))
        => RejectedWithEmailError
    /\ (Handled /\ req.form.email = Email_trailing_space)
        => req.response.error # ErrEmail

C2_Witness ==
    /\ Handled
    /\ OtherFieldsGiven(req.form)
    /\ req.form.email = Email_inner_space
    /\ RejectedWithEmailError

\* the error of the first rule violated, in the order of the rules
FirstViolation(form, fs) ==
    IF Rule1Violated(form) THEN ErrRequired
    ELSE IF Rule2Violated(form) THEN ErrEmail
    ELSE IF Rule3Violated(form) THEN ErrWhatsapp
    ELSE IF Rule4Violated(form, fs) THEN ErrFileSize(fs.max_file_size_mb)
    ELSE IF Rule5Violated(form, fs)
         THEN ErrFileType(AllowedTypes(fs.allowed_file_types))
    ELSE NoError

FiveErrors(fs) ==
    { ErrRequired, ErrEmail, ErrWhatsapp, ErrFileSize(fs.max_file_size_mb),
      ErrFileType(AllowedTypes(fs.allowed_file_types)) }

\* C3: a submission that violates one or more rules is answered with the
\* error of the first rule violated in the order required fields, email,
\* WhatsApp, attachment size, attachment type, and the five errors are
\* pairwise distinct messages.
C3_FailFastOrder ==
    /\ (Handled /\ FirstViolation(req.form, req.form_settings) # NoError)
        => req.response =
              ValidationResponse(FirstViolation(req.form, req.form_settings))
    /\ Handled =>
          Cardinality({e.text : e \in FiveErrors(req.form_settings)}) = 5

C3_Witness ==
    /\ Handled
    /\ ~Rule1Violated(req.form)
    /\ ~Rule2Violated(req.form)
    /\ ~Rule3Violated(req.form)
    /\ Rule4Violated(req.form, req.form_settings)
    /\ Rule5Violated(req.form, req.form_settings)
    /\ req.response = ValidationResponse(ErrFileSize(req.form_settings.max_file_size_mb))

IsValidationError(response) ==
    /\ response.kind = "json"
    /\ ~response.success
    /\ response.error.text \in {e.text : e \in FiveErrors(DefaultFields)}

\* C4: when the form is answered with a validation error, the Contact
\* table is what it was when the request arrived and no admin mail and no
\* auto-reply has been attempted or sent.
C4_ValidationErrorChangesNothing ==
    (req.pc = "done" /\ IsValidationError(req.response))
    => /\ contacts = req.contacts0
       /\ outbox = req.outbox0
       /\ ~InLog("admin")
       /\ ~InLog("auto")

C4_Witness ==
    /\ req.pc = "done"
    /\ IsValidationError(req.response)
    /\ req.response.error =
          ErrFileType(AllowedTypes(req.form_settings.allowed_file_types))
    /\ contacts = req.contacts0

\* the entries a step adds to the log
Added == {log'[i] : i \in (Len(log) + 1)..Len(log')}

ContactOfRequestStored ==
    /\ InLog("created")
    /\ req.contact \in DOMAIN contacts
    /\ contacts[req.contact] = SubmittedContact

\* C5: a step that attempts the admin mail or the auto-reply, or hands a
\* mail to the backend, is taken only when the Contact of the submission is
\* already stored; and once the insert has failed, no notification is
\* attempted and no mail is sent.
C5_PersistenceBeforeNotification ==
    /\ [](InLog("create_failed") =>
            (~InLog("admin") /\ ~InLog("auto") /\ outbox = req.outbox0))
    /\ [][ ((Added \cap {"admin", "auto"} # {}) \/ outbox' # outbox)
            => ContactOfRequestStored ]_vars

C5_Witness ==
    /\ req.pc = "done"
    /\ InLog("admin_sent")
    /\ InLog("auto_sent")
    /\ Len(outbox) = Len(req.outbox0) + 2

NotificationFailed ==
    InLog("admin_failed") \/ InLog("auto_failed") \/ InLog("auto_dropped")

\* C6: after the admin mail or the auto-reply has failed (the attachment
\* could not be attached, the send raised, the template did not render, the
\* backend dropped the mail), the Contact created for the submission is
\* still stored unchanged and the request ends with the success response.
C6_NotificationFailureContained ==
    NotificationFailed
    => /\ contacts = Append(req.contacts0, SubmittedContact)
       /\ req.pc = "done" => req.response = SuccessResponse(req.form.ajax)

C6_Witness ==
    /\ req.pc = "done"
    /\ InLog("admin_failed")
    /\ InLog("auto_failed")
    /\ req.response = SuccessResponse(req.form.ajax)

(***************************************************************************)
(* C7                                                                      *)
(***************************************************************************)
\* the lookup failed: no answer, an answer other than 200, a body that is
\* not JSON or has no status, a status other than 'success'
LookupFailed(resp) ==
    \/ resp.kind # "response"
    \/ resp.status_code # 200
    \/ ~resp.body.json
    \/ "status" \notin DOMAIN resp.body.data
    \/ resp.body.data["status"] # "success"

\* C7: when the geolocation lookup fails (timeout, connection error, a
\* status code other than 200, a payload that is not JSON or carries no
\* status, a status other than 'success'), get_location_info does not
\* raise and returns empty country, city and region, and track_page_view
\* adds exactly one PageView to the table, with the three fields empty.
C7_LookupFailureContained ==
    (lastTrack.called /\ LookupFailed(lastTrack.resp)) =>
        /\ ~lastTrack.raised
        /\ lastTrack.location = EmptyLocation
        /\ Len(pageViews) = Len(lastTrack.views0) + 1
        /\ SubSeq(pageViews, 1, Len(lastTrack.views0)) = lastTrack.views0
        /\ pageViews[Len(pageViews)].country = ""
        /\ pageViews[Len(pageViews)].city = ""
        /\ pageViews[Len(pageViews)].region = ""

\* a second visit whose lookup answered 200 with a body that is not JSON,
\* after a first visit that was located
C7_Witness ==
    /\ lastTrack.called
    /\ lastTrack.resp = GeoResponse(200, NotJson)
    /\ Len(pageViews) = 2
    /\ pageViews[1].country = "BR"
    /\ pageViews[2].country = ""

(***************************************************************************)
(* C8                                                                      *)
(***************************************************************************)
\* no caller has called save() on an instance of its own
OnlyGetSettings == \A p \in Callers : cop[p] # "save"

\* C8: when the callers only call get_settings, starting with no row and
\* in any interleaving, there is never more than one row; every caller
\* that has returned got a row and not an exception, and that row is the
\* one row of the table.
C8_ConcurrentGetSettingsOneRow ==
    OnlyGetSettings =>
        /\ Cardinality(settingsRows) <= 1
        /\ \A p \in Callers :
              cpc[p] = "done" =>
                  /\ cres[p].kind = "row"
                  /\ settingsRows = {cres[p].row}

\* all callers have returned from get_settings; one created the row and
\* another lost the race for the key and read the row on its second get
C8_Witness ==
    /\ \A p \in Callers : cop[p] = "get_settings" /\ cpc[p] = "done"
    /\ \E p \in Callers : cres[p].kind = "row" /\ cres[p].via = "create"
    /\ \E p \in Callers : cres[p].kind = "row" /\ cres[p].via = "reget"

(***************************************************************************)
(* C9                                                                      *)
(***************************************************************************)
\* C9: there is at most one ContactFormSettings row in every reachable
\* state, whatever primary key a new instance carries when it is saved and
\* also when two saves run concurrently.
C9_AtMostOneSettingsRow == Cardinality(settingsRows) <= 1

(***************************************************************************)
(* C10                                                                     *)
(***************************************************************************)
\* calls i and i+1 of update_daily_stats are for the same date and no
\* PageView or Contact was created from the start of the first to the end
\* of the second
RepeatedCall(i) ==
    /\ i \in DOMAIN calls
    /\ i + 1 \in DOMAIN calls
    /\ calls[i].date = calls[i + 1].date
    /\ calls[i].views0 = calls[i + 1].views1
    /\ calls[i].contacts0 = calls[i + 1].contacts1

\* C10: when update_daily_stats is called twice in a row for the same date
\* and no PageView or Contact is created meanwhile, the row the second
\* call saves equals the row the first call saved (total views, unique
\* visitors, contact count, device counts, top three countries and their
\* counts), and the table has one row for that date.
C10_UpdateDailyStatsIdempotent ==
    \A i \in DOMAIN calls :
        RepeatedCall(i) =>
            /\ calls[i + 1].row = calls[i].row
            /\ Cardinality({r \in statsRows : r.date = calls[i].date}) = 1

\* two calls in a row over a day with three views, one of them not
\* located and the other two from countries seen equally often, and a contact
C10_Witness ==
    /\ RepeatedCall(1)
    /\ calls[2].row.total_views = 3
    /\ calls[2].row.contact_submissions = 1
    /\ calls[2].row.top[1].count = 1
    /\ calls[2].row.top[2].count = 1

(***************************************************************************)
(* C11                                                                     *)
(***************************************************************************)
\* call i of update_daily_stats has returned and no PageView was created
\* while it ran
QuietCall(i) == i \in DOMAIN calls /\ calls[i].views0 = calls[i].views1

\* the PageView table as call i saw it
ViewsAtCall(i) == SubSeq(pageViews, 1, calls[i].views1)

\* the addresses whose first view ever is on the date
FirstSeenOn(views, date) ==
    { views[i].ip_address :
        i \in {k \in DOMAIN views : views[k].day = date /\ is_unique_visitor(views, k)} }

\* the addresses with a view on the date
SeenOn(views, date) ==
    { views[i].ip_address : i \in {k \in DOMAIN views : views[k].day = date} }

ViewsAtReport == SubSeq(pageViews, 1, report.views0)
ContactsAtReport == SubSeq(contacts, 1, report.contacts0)

NoEventsOn(date) ==
    /\ \A i \in DOMAIN ViewsAtReport : ViewsAtReport[i].day # date
    /\ \A i \in DOMAIN ContactsAtReport : ContactsAtReport[i].created_at # date

\* C12: for a range with start_date <= end_date the daily statistics of
\* analytics have one entry per date of the range, the k-th entry being
\* that of the k-th date (oldest first, no date missing, no label twice),
\* and the entry of a date without page views and contacts has views,
\* visitors and contacts 0.
C12_DailyBreakdownComplete ==
    (report.called /\ report.start_date <= report.end_date) =>
        /\ Len(report.daily_stats) = report.end_date - report.start_date + 1
        /\ \A k \in DOMAIN report.daily_stats :
              /\ report.daily_stats[k].date = DayMonth(report.start_date + k - 1)
              /\ \A j \in DOMAIN report.daily_stats :
                    j # k => report.daily_stats[j].date # report.daily_stats[k].date
              /\ NoEventsOn(report.start_date + k - 1) =>
                    /\ report.daily_stats[k].views = 0
                    /\ report.daily_stats[k].visitors = 0
                    /\ report.daily_stats[k].contacts = 0

\* a report over three days of which only the middle one has events
C12_Witness ==
    /\ report.called
    /\ report.start_date = -1
    /\ report.end_date = 1
    /\ NoEventsOn(-1)
    /\ NoEventsOn(1)
    /\ Len(report.daily_stats) = 3
    /\ report.daily_stats[2].views = 2
    /\ report.daily_stats[2].visitors = 1
    /\ report.daily_stats[2].contacts = 1

(***************************************************************************)
(* C13                                                                     *)
(***************************************************************************)
CountryOccurrences(views, country) ==
    Cardinality({i \in DOMAIN views : views[i].country = country})

LocatedCountries(views) == {views[i].country : i \in DOMAIN views} \ {""}

Smaller(a, b) == IF a < b THEN a ELSE b

\* result is a top-n list of the countries of the views
IsTopCountries(result, views, n) ==
    /\ Len(result) = Smaller(n, Cardinality(LocatedCountries(views)))
    /\ \A k \in DOMAIN result :
          /\ result[k].country \in LocatedCountries(views)
          /\ result[k].count = CountryOccurrences(views, result[k].country)
          /\ \A j \in DOMAIN result : j < k =>
                /\ result[j].country # result[k].country
                /\ result[j].count >= result[k].count
          /\ \A c \in LocatedCountries(views) :
                (\A j \in DOMAIN result : result[j].country # c) =>
                    CountryOccurrences(views, c) <= result[k].count

\* the countries of the views, in the order of the table
CountriesOf(views) == [i \in DOMAIN views |-> views[i].country]

\* the top countries a row of SiteStatistics holds
RowTop(row) == SelectSeq(row.top, LAMBDA e : e.country # "")

\* C13: the top countries leave out the views with an empty country, count
\* the views of every other country, are sorted by count descending and
\* are at most N (10 in analytics, 3 in update_daily_stats); over views
\* from BR, BR, US, BR, US they are (BR,3), (US,2), over no views they are
\* the empty list.
C13_TopCountries ==
    /\ report.called =>
          LET views == ViewsBetween(ViewsAtReport, report.start_date, report.end_date)
          IN /\ IsTopCountries(report.top_countries, views, 10)
             /\ CountriesOf(views) = <<"BR", "BR", "US", "BR", "US">> =>
                   report.top_countries = <<CountryCount("BR", 3), CountryCount("US", 2)>>
             /\ views = <<>> => report.top_countries = <<>>
    /\ \A i \in DOMAIN calls :
          IsTopCountries(RowTop(calls[i].row),
                         ViewsOn(ViewsAtCall(i), calls[i].date), 3)

\* the report over views from BR, BR, US, BR, US
C13_Witness ==
    /\ report.called
    /\ CountriesOf(ViewsAtReport) = <<"BR", "BR", "US", "BR", "US">>
    /\ report.top_countries = <<CountryCount("BR", 3), CountryCount("US", 2)>>

(***************************************************************************)
(* C14                                                                     *)
(***************************************************************************)
OnlyDigits(s) ==
    SelectSeq(s, LAMBDA c : c \in {"0", "1", "2", "3", "4", "5", "6", "7", "8", "9"})

RejectedWith(error_text) ==
    /\ req.response.kind = "json"
    /\ ~req.response.success
    /\ req.response.error.text = error_text

\* C14: a submission with the required fields and a well-formed email is
\* answered with the WhatsApp error exactly when its WhatsApp value, all
\* non-digits removed, has fewer than 10 or more than 11 digits;
\* "(11) 91234-5678" is cleaned to "11912345678" and passes, "123" is
\* answered with the WhatsApp error.
C14_WhatsappRule ==
    (Handled /\ ~Rule1Violated(req.form) /\ ~Rule2Violated(req.form)) =>
        /\ RejectedWith(ErrWhatsapp.text) <=> Len(OnlyDigits(req.form.whatsapp)) \notin {10, 11}
        /\ req.form.whatsapp = Whatsapp_formatted =>
              /\ RemoveNonDigits(Strip(req.form.whatsapp)) = Whatsapp_11
              /\ ~RejectedWith(ErrWhatsapp.text)
        /\ req.form.whatsapp = Whatsapp_short => RejectedWith(ErrWhatsapp.text)

\* a number of ten digits written with a space and a dash was accepted and
\* its Contact stored
C14_Witness ==
    /\ Handled
    /\ req.form.whatsapp = Whatsapp_10
    /\ req.response = SuccessResponse(req.form.ajax)
    /\ Len(contacts) = 1

(***************************************************************************)
(* C15                                                                     *)
(***************************************************************************)
\* the place of the last '.' of a name, 0 when it has none
LastDot(name) ==
    IF \E i \in DOMAIN name : name[i] = "."
    THEN CHOOSE i \in DOMAIN name :
            name[i] = "." /\ \A j \in DOMAIN name : j > i => name[j] # "."
    ELSE 0

\* what follows the last '.', lower-cased
ExtensionOf(name) == Lower(SubSeq(name, LastDot(name) + 1, Len(name)))

AttachmentAcceptable(file, fs) ==
    /\ file.size <= fs.max_file_size_mb * 1024 * 1024
    /\ InList(ExtensionOf(file.name), AllowedTypes(fs.allowed_file_types))

\* C15: a submission that is valid but for its attachment is accepted
\* exactly when the file has at most max_file_size_mb * 1024 * 1024 bytes
\* and what follows the last '.' of its name, lower-cased, is in the
\* configured list; otherwise it is answered with the size error or, the
\* size being in order, the type error.  Under the default settings a file
\* of 11 MB gets the size error and evil.exe gets the type error.
C15_AttachmentRule ==
    (Handled /\ req.form.attachment.present /\ ~Rule1Violated(req.form)
        /\ ~Rule2Violated(req.form) /\ ~Rule3Violated(req.form)) =>
        LET file == req.form.attachment
            fs == req.form_settings
        IN /\ req.response = SuccessResponse(req.form.ajax)
                 <=> AttachmentAcceptable(file, fs)
           /\ RejectedWith(ErrFileSize(fs.max_file_size_mb).text)
                 <=> file.size > fs.max_file_size_mb * 1024 * 1024
           /\ RejectedWith(ErrFileType(AllowedTypes(fs.allowed_file_types)).text)
                 <=> /\ file.size <= fs.max_file_size_mb * 1024 * 1024
                     /\ ~InList(ExtensionOf(file.name), AllowedTypes(fs.allowed_file_types))
           /\ (fs = DefaultFields /\ file.size = Bytes_11MB) =>
                 req.response = ValidationResponse(ErrFileSize(10))
           /\ (fs = DefaultFields /\ file.name = Name_evil_exe /\ file.size = 1024) =>
                 req.response = ValidationResponse(ErrFileType(AllowedTypes(DefaultAllowedFileTypes)))

\* cv.PDF of exactly 10 MB was accepted under the default settings
C15_Witness ==
    /\ Handled
    /\ req.form_settings = DefaultFields
    /\ req.form.attachment = FileOf(Name_cv_pdf, Bytes_10MB)
    /\ req.response = SuccessResponse(req.form.ajax)
    /\ Len(contacts) = 1

(***************************************************************************)
(* C16                                                                     *)
(***************************************************************************)
\* the mails handed to the backend since the request in flight arrived
MailsOfRequest == SubSeq(outbox, Len(req.outbox0) + 1, Len(outbox))

MailSent(kind) == \E i \in DOMAIN MailsOfRequest : MailsOfRequest[i].kind = kind

\* C16: with the settings the submission was handled under, the admin mail
\* is neither attempted nor sent when email_notifications is off or
\* notification_email is empty, and the auto-reply is neither attempted
\* nor sent when auto_reply_enabled is off, whether or not the other
\* channel is on.
C16_DisabledChannelNeverUsed ==
    /\ (~req.form_settings.email_notifications
            \/ req.form_settings.notification_email = <<>>) =>
          ~InLog("admin") /\ ~MailSent("admin")
    /\ ~req.form_settings.auto_reply_enabled =>
          ~InLog("auto") /\ ~MailSent("auto")

\* a submission handled with notifications switched on but no address to
\* send them to: the auto-reply went out, no admin mail did
C16_Witness ==
    /\ req.pc = "done"
    /\ req.response = SuccessResponse(req.form.ajax)
    /\ req.form_settings.email_notifications
    /\ req.form_settings.notification_email = <<>>
    /\ InLog("auto_sent")
    /\ MailSent("auto")
    /\ ~MailSent("admin")

(***************************************************************************)
(* C17                                                                     *)
(***************************************************************************)
\* a contact_detail request that is past its mark-as-read step
Opened(s) == staff[s].pc \in {"notes", "done"}

\* C17: a Contact enters the table with is_read false; once a
\* contact_detail request for it, GET or POST, is past its first step the
\* stored is_read is true; and no step of a detail view, a notes update or
\* a form submission turns a true is_read back to false.
C17_IsReadSetOnceAndKept ==
    /\ [][\A i \in DOMAIN contacts' :
            i \notin DOMAIN contacts => ~contacts'[i].is_read]_vars
    /\ [](\A s \in Staff : Opened(s) => contacts[staff[s].id].is_read)
    /\ [][\A i \in DOMAIN contacts :
            contacts[i].is_read => contacts'[i].is_read]_vars

\* a contact first opened by a notes update, with a later detail view done
C17_Witness ==
    /\ lastPost.made
    /\ contacts[lastPost.id].is_read
    /\ contacts[lastPost.id].notes = Note_called
    /\ \E s \in Staff : staff[s].pc = "done" /\ staff[s].method = "GET"
                            /\ staff[s].contact.notes = Note_called

(***************************************************************************)
(* C18                                                                     *)
(***************************************************************************)
TrackedUrls == {<<"/">>, <<"/portfolio/", "1", "/">>}

\* the step keeps every PageView stored before it and appends exactly one,
\* recorded for url
RecordsOne(url) ==
    /\ Len(pageViews') = Len(pageViews) + 1
    /\ SubSeq(pageViews', 1, Len(pageViews)) = pageViews
    /\ pageViews'[Len(pageViews')].page_url = url

\* C18: every call of track_page_view made for landing_page (GET or POST)
\* or portfolio_detail appends exactly one PageView with the page's url and
\* no other step touches the table; the landing page's counts are taken
\* after it (they include the request's own view); a POST records its view
\* in the step that enters handle_contact_form, before settings are read, a
\* Contact is stored or a mail is sent; and while the submission is
\* handled and after it has been rejected or accepted, that view is the
\* first thing the request did and is still stored.
C18_PageViewRecordedFirst ==
    /\ [][lastTrack' # lastTrack <=> pageViews' # pageViews]_vars
    /\ [][lastTrack' # lastTrack =>
            /\ lastTrack'.views0 = pageViews
            /\ \E url \in TrackedUrls : RecordsOne(url)]_vars
    /\ [][page' # page =>
            /\ RecordsOne(<<"/">>)
            /\ page'.total_views = Len(pageViews')]_vars
    /\ [][nreq' # nreq =>
            /\ RecordsOne(<<"/">>)
            /\ req'.pc = "form" /\ log' = <<"pageview">>
            /\ UNCHANGED <<settingsRows, contacts, outbox>>]_vars
    /\ [](req.pc # "idle" =>
            /\ log # <<>> /\ Head(log) = "pageview" /\ CountLog("pageview") = 1
            /\ \E i \in DOMAIN pageViews : pageViews[i].page_url = <<"/">>)

\* a landing page rendered, a project page, then a submission rejected for
\* its attachment: three views in all, the last one the submission's
C18_Witness ==
    /\ req.pc = "done"
    /\ InLog("rejected")
    /\ req.form.attachment.present
    /\ page.rendered
    /\ page.total_views = 1
    /\ Len(pageViews) = 3
    /\ pageViews[2].page_url = <<"/portfolio/", "1", "/">>
    /\ pageViews[3].page_url = <<"/">>

(***************************************************************************)
(* C19                                                                     *)
(***************************************************************************)
\* C19: in every stored SiteStatistics row the desktop, mobile and tablet
\* views add up to at most total_views, and unique_visitors is at most
\* total_views, also when pages are visited while update_daily_stats runs.
C19_StoredRowsConsistent ==
    \A row \in statsRows :
        /\ row.desktop_views + row.mobile_views + row.tablet_views <= row.total_views
        /\ row.unique_visitors <= row.total_views

(***************************************************************************)
(* C21                                                                     *)
(***************************************************************************)
\* both series have been computed, on the same date and over the same rows
\* (the two tables only grow, so equal sizes are equal contents)
SameStoreAndDate ==
    /\ home.made /\ api.made
    /\ home.today = api.today
    /\ home.views0 = api.views0
    /\ home.contacts0 = api.contacts0

\* the day and month of a '%Y-%m-%d' label are those of a '%d/%m' label
SameDate(ymd, dm) == ymd.day = dm.day /\ ymd.month = dm.month

\* C21: computed on the same date over the same store, recent_activity of
\* api_stats and daily_stats of dashboard_home have seven entries each, the
\* k-th entries are for the same date with the same views, visitors and
\* contacts, the dates run from six days ago to today.
C21_SeriesAgree ==
    SameStoreAndDate =>
        /\ Len(api.entries) = 7 /\ Len(home.entries) = 7
        /\ \A k \in 1..7 :
              /\ SameDate(api.entries[k].date, home.entries[k].date)
              /\ home.entries[k].date = DayMonth(home.today - 7 + k)
              /\ api.entries[k].views = home.entries[k].views
              /\ api.entries[k].visitors = home.entries[k].visitors
              /\ api.entries[k].contacts = home.entries[k].contacts

(***************************************************************************)
(* C20                                                                     *)
(***************************************************************************)
\* no contact_detail request is between its load and its last save
NoDetailInFlight == \A s \in Staff : staff[s].pc \in {"idle", "done"}

\* C20: once the contact_detail requests in flight have all finished, the
\* stored notes of a contact are those of the last notes update saved for
\* it, whatever detail views ran at the same time.
C20_NotesUpdateNotLost ==
    (lastPost.made /\ NoDetailInFlight) =>
        contacts[lastPost.id].notes = lastPost.notes

NextTrack ==
    \/ \E meta \in Metas, resp \in GeoResponses :
          Len(pageViews) < MaxViews /\ PortfolioDetail(meta, "1", resp)
    \/ \E meta \in Metas, resp \in GeoResponses :
          Len(pageViews) < MaxViews /\ LandingGet(meta, resp)

SpecTrack == Init /\ [][NextTrack]_vars

\* The tracked pages: project pages, the landing page, and one submission
\* of the contact form handled while visits go on.
NextPages ==
    \/ \E meta \in Metas, resp \in GeoResponses :
          Len(pageViews) < MaxViews /\ PortfolioDetail(meta, "1", resp)
    \/ \E meta \in Metas, resp \in GeoResponses :
          Len(pageViews) < MaxViews /\ LandingGet(meta, resp)
    \/ \E resp \in FormGeoResponses, form \in PageForms :
          LandingPost(Visitor_pc, resp, form)
    \/ ValidateForm
    \/ \E raises \in BOOLEAN : CreateContact(raises)
    \/ \E outcome \in AdminOutcomes : NotifyAdmin(outcome)
    \/ \E delivered \in BOOLEAN : NotifyApplicant(delivered)
    \/ ReturnResponse

SpecPages == Init /\ [][NextPages]_vars

\* The statistics job runs between form submissions; page visits arrive at
\* any moment of it.
\* The two daily series, asked for at any moment while pages are visited,
\* a form is submitted and the days go by.
NextSeries ==
    \/ \E v \in StatVisits :
          Len(pageViews) < MaxViews /\ PortfolioDetail(v.meta, "1", v.resp)
    \/ LandingPost(Visitor_pc, Located_BR, ValidForm)
    \/ ValidateForm
    \/ CreateContact(FALSE)
    \/ NotifyAdmin("sent")
    \/ NotifyApplicant(TRUE)
    \/ ReturnResponse
    \/ AdvanceDay
    \/ DashboardHome
    \/ ApiStats

SpecSeries == Init /\ [][NextSeries]_vars

NextStats ==
    \/ \E v \in StatVisits :
          Len(pageViews) < MaxViews /\ PortfolioDetail(v.meta, "1", v.resp)
    \/ upd.pc = "idle" /\ LandingPost(Visitor_pc, Located_BR, ValidForm)
    \/ upd.pc = "idle" /\ ValidateForm
    \/ upd.pc = "idle" /\ CreateContact(FALSE)
    \/ upd.pc = "idle" /\ NotifyAdmin("sent")
    \/ upd.pc = "idle" /\ NotifyApplicant(TRUE)
    \/ upd.pc = "idle" /\ ReturnResponse
    \/ AdvanceDay
    \/ \E date \in Days : req.pc = "idle" /\ UpdGetOrCreate(date)
    \/ UpdTotalViews
    \/ UpdUniqueVisitors
    \/ UpdContactSubmissions
    \/ UpdDesktopViews
    \/ UpdMobileViews
    \/ UpdTabletViews
    \/ UpdTopCountries
    \/ UpdSave

SpecStats == Init /\ [][NextStats]_vars

\* The dashboard's analytics page, asked at any moment between the visits
\* and the form submissions.
NextAnalytics ==
    \/ \E v \in StatVisits :
          Len(pageViews) < MaxViews /\ PortfolioDetail(v.meta, "1", v.resp)
    \/ LandingPost(Visitor_pc, Located_BR, ValidForm)
    \/ ValidateForm
    \/ CreateContact(FALSE)
    \/ NotifyAdmin("sent")
    \/ NotifyApplicant(TRUE)
    \/ ReturnResponse
    \/ AdvanceDay
    \/ \E params \in DateParams : Analytics(params[1], params[2])

SpecAnalytics == Init /\ [][NextAnalytics]_vars

\* The aggregation of the top countries: one visitor, the analytics page
\* and one run of the statistics job, one after the other.
NextTop ==
    \/ \E resp \in TopResponses :
          /\ Len(pageViews) < MaxReportViews
          /\ upd.pc = "idle"
          /\ PortfolioDetail(Visitor_pc, "1", resp)
    \/ upd.pc = "idle" /\ Analytics(AbsentParam, AbsentParam)
    \/ calls = <<>> /\ UpdGetOrCreate(0)
    \/ UpdTotalViews
    \/ UpdUniqueVisitors
    \/ UpdContactSubmissions
    \/ UpdDesktopViews
    \/ UpdMobileViews
    \/ UpdTabletViews
    \/ UpdTopCountries
    \/ UpdSave

SpecTop == Init /\ [][NextTop]_vars

\* The form rules on values around their bounds, under the default
\* settings and under settings staff have saved.
NextRules ==
    \/ \E fields \in RuleSettings : SettingsPost(fields)
    \/ \E form \in RuleForms :
          LandingPost(Visitor_pc, Located_BR, form)
    \/ ValidateForm
    \/ CreateContact(FALSE)
    \/ NotifyAdmin("sent")
    \/ NotifyApplicant(TRUE)
    \/ ReturnResponse

SpecRules == Init /\ [][NextRules]_vars

\* The dashboard's detail page, opened by the staff members at the same
\* time on the contacts the form has created.
NextDetail ==
    \/ LandingPost(Visitor_pc, Located_BR, ValidForm)
    \/ ValidateForm
    \/ CreateContact(FALSE)
    \/ NotifyAdmin("sent")
    \/ NotifyApplicant(TRUE)
    \/ ReturnResponse
    \/ \E s \in Staff, contact_id \in 1..MaxRequests :
          DetailLoad(s, "GET", contact_id, <<>>)
    \/ \E s \in Staff, contact_id \in 1..MaxRequests, notes \in NoteTexts :
          DetailLoad(s, "POST", contact_id, notes)
    \/ \E s \in Staff : DetailMark(s)
    \/ \E s \in Staff : DetailNotes(s)
    \/ \E s \in Staff : DetailReturn(s)

SpecDetail == Init /\ [][NextDetail]_vars

NextSettings ==
    \E p \in Callers :
        \/ GetSettingsGet(p)
        \/ GetSettingsCreate(p)
        \/ GetSettingsReget(p)
        \/ \E pk \in {NoPk} \cup PKs : SaveNewCheck(p, pk)
        \/ SaveNewWrite(p)

SpecSettings == Init /\ [][NextSettings]_vars

====
